---- MODULE Spec2Model ----
(***************************************************************************)
(* llm-weaver: the request-routing engine.                                 *)
(*                                                                         *)
(*   - the routing pipeline of POST /v1/chat/completions                   *)
(*     (app/api/v1/openai_compat.py),                                      *)
(*   - the load balancer (app/services/load_balancer.py).                  *)
(*                                                                         *)
(* Money is counted in micro-dollars (1e-6 $), the resolution of           *)
(* calculate_cost; prices are micro-dollars per 1K tokens; channel cost    *)
(* configuration is in micro-dollars per 1K tokens as well.  Time is       *)
(* counted in minutes, latency in milliseconds.                            *)
(*                                                                         *)
(* RequestLog rows are modelled through the append interface that          *)
(* log_request and api/v1/usage.py agree on (tokens_input / tokens_output).*)
(***************************************************************************)
EXTENDS Integers, Sequences, FiniteSets, TLC

\* ---------------------------------------------------------------- bounds
NReq == 2
MaxChunks == 1
MaxNow == 10
MaxFailures == 3
MaxHits == 2
MaxWeight == 2
MaxLogs == 3
MaxKeyLen == 20
MaxMappings == 6

\* ------------------------------------------------------ program constants
max_consecutive_failures == 3
cache_routing_ttl_minutes == 5
metrics_window_minutes == 30
HealthFreshMinutes == 5
MetricsFreshMinutes == 5
CacheLatencyMs == 50
BudgetScale == 100

None == 0
Requests == 1..NReq

Strategies == {"random", "weighted", "lowest_cost", "performance"}
\* No X-LB-Strategy header, or a value that is not a strategy name.
NoStrategy == "none"

\* ------------------------------------------------------------- fixtures
\* Public model ids used by the requests.  "custom-model" has no entry in
\* the pricing table; "unmapped-model" is mapped by no channel.
Models == {"gpt-4", "custom-model", "unmapped-model"}

\* API keys: id -> owner, budget limit, allowed_models ({} stands for NULL).
ApiKeys == {1, 2}
KeyUser == [k \in ApiKeys |-> IF k = 1 THEN 1 ELSE 2]
KeyBudgetLimit == [k \in ApiKeys |-> IF k = 1 THEN 1000000 ELSE 0]
KeyAllowedModels == [k \in ApiKeys |-> IF k = 1 THEN {} ELSE {"gpt-4", "unmapped-model"}]
Users == {1, 2}

InitialBudgetUsed == {999900, 1000000}

\* Lengths of the joined input text and token counts reported upstream.
InputLengths == {3}
UpstreamTokens == {0, 2}
ChunkLengths == {0, 4}
Latencies == {20, 100}
\* The latency measured for a failed call (it is logged and otherwise unused).
ErrorLatencies == {100}

\* ------------------------------------------------------- pure functions
\* count_tokens: len(text) // 3 + 1
count_tokens(len) == (len \div 3) + 1

\* Pricing table of calculate_cost, micro-dollars per 1K tokens.
PricedModels == {"gpt-4", "gpt-4-turbo", "gpt-3.5-turbo", "gpt-3.5-turbo-16k",
                 "claude-3-opus", "claude-3-sonnet", "claude-3-haiku",
                 "claude-3-opus-20240229", "claude-3-sonnet-20240229",
                 "claude-3-haiku-20240307",
                 "gemini-pro", "gemini-pro-vision", "gemini-ultra"}

pricing(m) ==
    CASE m = "gpt-4" -> [input |-> 30000, output |-> 60000]
      [] m = "gpt-4-turbo" -> [input |-> 10000, output |-> 30000]
      [] m = "gpt-3.5-turbo" -> [input |-> 500, output |-> 1500]
      [] m = "gpt-3.5-turbo-16k" -> [input |-> 1000, output |-> 2000]
      [] m \in {"claude-3-opus", "claude-3-opus-20240229"} -> [input |-> 15000, output |-> 75000]
      [] m \in {"claude-3-sonnet", "claude-3-sonnet-20240229"} -> [input |-> 3000, output |-> 15000]
      [] m \in {"claude-3-haiku", "claude-3-haiku-20240307"} -> [input |-> 250, output |-> 1250]
      [] m \in {"gemini-pro", "gemini-pro-vision"} -> [input |-> 500, output |-> 1500]
      [] m = "gemini-ultra" -> [input |-> 1000, output |-> 3000]

\* round(x, 6) of a non-negative amount n/d micro-dollars: nearest integer,
\* ties to even.
RoundHalfEven(n, d) ==
    LET q == n \div d
        r == n % d
    IN  IF 2 * r < d THEN q
        ELSE IF 2 * r > d THEN q + 1
        ELSE IF q % 2 = 0 THEN q ELSE q + 1

\* calculate_cost(model, input_tokens, output_tokens), in micro-dollars.
calculate_cost(m, input_tokens, output_tokens) ==
    LET model_pricing == IF m \in PricedModels THEN pricing(m) ELSE pricing("gpt-3.5-turbo")
    IN  RoundHalfEven(input_tokens * model_pricing.input
                        + output_tokens * model_pricing.output, 1000)

\* The budget columns are Numeric(15, 4): a stored amount keeps four
\* decimals, i.e. is rounded to a multiple of 100 micro-dollars.
Numeric4(x) == ((x + (BudgetScale \div 2)) \div BudgetScale) * BudgetScale

\* ------------------------------------------------------------ variables
VARIABLES
    \* database
    channels,              \* channels table: id -> row
    model_mappings,        \* model_mappings table: sequence of rows
    budget_used,           \* api_keys.budget_used, per key
    budget_initial,        \* budget_used when the run starts
    request_logs,          \* request_logs table (append log of outcomes)
    \* load balancer (process-wide, in memory)
    consecutive_failures,  \* _consecutive_failures
    health_status,         \* _health_status
    performance_metrics,   \* _performance_metrics
    cache_routing,         \* _cache_routing
    enable_cache_tracking,
    default_strategy,
    now,                   \* datetime.utcnow(), minutes
    \* in-flight chat-completion requests
    rq,                    \* per request: position and locals
    record_calls,          \* per request, its calls of record_request_result
    last_select,           \* the call of select_optimal_channel the last step made
    last_call              \* the other load-balancer call the last step made

vars == <<channels, model_mappings, budget_used, budget_initial, request_logs,
          consecutive_failures, health_status, performance_metrics,
          cache_routing, enable_cache_tracking, default_strategy, now,
          rq, record_calls, last_select, last_call>>

db_vars == <<channels, model_mappings, budget_used, budget_initial, request_logs>>
lb_vars == <<consecutive_failures, health_status, performance_metrics,
             cache_routing, enable_cache_tracking, default_strategy>>

ChannelIds == DOMAIN channels

\* ------------------------------------------------- load balancer: tables
NoStatus == [present |-> FALSE, is_healthy |-> TRUE, last_check_time |-> 0,
             consecutive_failures |-> 0]
NoRoute == [present |-> FALSE, channel_id |-> 0, has_cache_enabled |-> FALSE,
            last_used_at |-> 0, consecutive_hits |-> 0]
NoMetrics == [present |-> FALSE, success_rate |-> [n |-> 1, d |-> 1],
              successes |-> 0, total_requests |-> 0,
              error_count |-> 0, latency_sum |-> 0, p50_latency_ms |-> 0,
              p95_latency_ms |-> 0, p99_latency_ms |-> 0, cached_requests |-> 0,
              window_minutes |-> 0, calculated_at |-> 0]
NoCosts == [input |-> -1, output |-> -1]

\* A health predicate for which a probe result of exactly five minutes is
\* still fresh.
is_channel_healthy_stale(channel_id) ==
    IF consecutive_failures[channel_id] >= max_consecutive_failures
    THEN FALSE
    ELSE IF health_status[channel_id].present
            /\ now - health_status[channel_id].last_check_time <= HealthFreshMinutes
         THEN health_status[channel_id].is_healthy
         ELSE TRUE

\* A health predicate that tolerates one failure more (exclusion after
\* max_consecutive_failures failures depends on the comparison being >=).
is_channel_healthy_late(channel_id) ==
    IF consecutive_failures[channel_id] > max_consecutive_failures
    THEN FALSE
    ELSE IF health_status[channel_id].present
            /\ now - health_status[channel_id].last_check_time < HealthFreshMinutes
         THEN health_status[channel_id].is_healthy
         ELSE TRUE

\* is_channel_healthy: the fast-path health predicate.
is_channel_healthy(channel_id) ==
    IF consecutive_failures[channel_id] >= max_consecutive_failures
    THEN FALSE
    ELSE IF health_status[channel_id].present
            /\ now - health_status[channel_id].last_check_time < HealthFreshMinutes
         THEN health_status[channel_id].is_healthy
         ELSE TRUE

\* A pool passed on without the health filter (the property of healthy
\* selection depends on the filter).
filter_healthy_channels_unfiltered(pool) ==
    pool

\* _filter_healthy_channels over a pool (sequence of channel ids).
filter_healthy_channels(pool) ==
    LET healthy == SelectSeq(pool, LAMBDA c : is_channel_healthy(c))
    IN  IF healthy # <<>> THEN healthy ELSE pool

SeqRange(s) == {s[i] : i \in 1..Len(s)}

RECURSIVE SumWeights(_, _)
SumWeights(pool, n) ==
    IF n = 0 THEN 0 ELSE SumWeights(pool, n - 1) + channels[pool[n]].weight

\* _strategy_random: random.choice over the filtered pool.
strategy_random(pool) ==
    SeqRange(filter_healthy_channels(pool))

\* _strategy_weighted_random: r = random.uniform(0, total_weight); the first
\* element whose cumulative weight reaches r, else the first element.
\* The loop of _strategy_weighted_random for one value r of the draw.
weighted_pick(healthy_channels, r) ==
    LET Hit == {i \in 1..Len(healthy_channels) : r <= SumWeights(healthy_channels, i)}
    IN  IF Hit # {}
        THEN healthy_channels[CHOOSE i \in Hit : \A j \in Hit : i <= j]
        ELSE healthy_channels[1]

strategy_weighted_random(pool) ==
    LET healthy_channels == filter_healthy_channels(pool)
        total_weight == SumWeights(healthy_channels, Len(healthy_channels))
    IN  {weighted_pick(healthy_channels, r) : r \in 0..total_weight}

\* ------------------------------------------ load balancer: performance
\* Rows of request_logs for (channel_id, model) created since now - window.
WindowLogs(channel_id, model, window_minutes) ==
    SelectSeq(request_logs, LAMBDA log :
        /\ log.channel_id = channel_id
        /\ log.model = model
        /\ log.created_at >= now - window_minutes)

\* latencies_sorted[idx] (0-based) of a non-empty sequence of latencies.
SortedAt(latencies, idx) ==
    CHOOSE x \in SeqRange(latencies) :
        /\ Cardinality({i \in 1..Len(latencies) : latencies[i] < x}) <= idx
        /\ idx < Cardinality({i \in 1..Len(latencies) : latencies[i] <= x})

RECURSIVE SumSeq(_)
SumSeq(s) == IF s = <<>> THEN 0 ELSE Head(s) + SumSeq(Tail(s))

Min(a, b) == IF a < b THEN a ELSE b
Max(a, b) == IF a > b THEN a ELSE b

\* An analysis that counts every row of the window as a success.
analyze_channel_performance_allok(channel_id, model, window_minutes) ==
    LET logs == WindowLogs(channel_id, model, window_minutes)
        success_logs == SelectSeq(logs, LAMBDA log : log.status = "success")
        error_logs == SelectSeq(logs, LAMBDA log : log.status = "error")
        latencies == [i \in 1..Len(success_logs) |-> success_logs[i].latency_ms]
        n == Len(latencies)
    IN  IF logs = <<>>
        THEN [NoMetrics EXCEPT !.present = TRUE,
                               !.window_minutes = window_minutes,
                               !.calculated_at = now]
        ELSE [present |-> TRUE,
              success_rate |-> [n |-> Len(logs), d |-> Len(logs)],
              successes |-> Len(logs),
              total_requests |-> Len(logs),
              error_count |-> Len(error_logs),
              latency_sum |-> SumSeq(latencies),
              p50_latency_ms |-> IF n > 0 THEN SortedAt(latencies, n \div 2) ELSE 0,
              p95_latency_ms |-> IF n > 0 THEN SortedAt(latencies, Min((n * 95) \div 100, n - 1)) ELSE 0,
              p99_latency_ms |-> IF n > 0 THEN SortedAt(latencies, Min((n * 99) \div 100, n - 1)) ELSE 0,
              cached_requests |-> Cardinality({i \in 1..n : latencies[i] < CacheLatencyMs}),
              window_minutes |-> window_minutes,
              calculated_at |-> now]

\* analyze_channel_performance.  success_rate is successes / total_requests
\* (1.0 when there are no rows); avg_latency_ms is latency_sum / #latencies.
analyze_channel_performance(channel_id, model, window_minutes) ==
    LET logs == WindowLogs(channel_id, model, window_minutes)
        success_logs == SelectSeq(logs, LAMBDA log : log.status = "success")
        error_logs == SelectSeq(logs, LAMBDA log : log.status = "error")
        latencies == [i \in 1..Len(success_logs) |-> success_logs[i].latency_ms]
        n == Len(latencies)
    IN  IF logs = <<>>
        THEN [NoMetrics EXCEPT !.present = TRUE,
                               !.window_minutes = window_minutes,
                               !.calculated_at = now]
        ELSE [present |-> TRUE,
              success_rate |-> [n |-> Len(success_logs), d |-> Len(logs)],
              successes |-> Len(success_logs),
              total_requests |-> Len(logs),
              error_count |-> Len(error_logs),
              latency_sum |-> SumSeq(latencies),
              p50_latency_ms |-> IF n > 0 THEN SortedAt(latencies, n \div 2) ELSE 0,
              p95_latency_ms |-> IF n > 0 THEN SortedAt(latencies, Min((n * 95) \div 100, n - 1)) ELSE 0,
              p99_latency_ms |-> IF n > 0 THEN SortedAt(latencies, Min((n * 99) \div 100, n - 1)) ELSE 0,
              cached_requests |-> Cardinality({i \in 1..n : latencies[i] < CacheLatencyMs}),
              window_minutes |-> window_minutes,
              calculated_at |-> now]

\* get_channel_performance: the cache entry when it is younger than five
\* minutes, else a fresh analysis over metrics_window_minutes.
CacheFresh(pm, channel_id, model) ==
    /\ pm[<<channel_id, model>>].present
    /\ now - pm[<<channel_id, model>>].calculated_at < MetricsFreshMinutes

get_channel_performance(pm, channel_id, model) ==
    IF CacheFresh(pm, channel_id, model)
    THEN pm[<<channel_id, model>>]
    ELSE analyze_channel_performance(channel_id, model, metrics_window_minutes)

\* The cache after get_channel_performance ran for every channel of a pool:
\* analyze_channel_performance stores its result unless the window is empty.
MetricsAfterFetch(pm, fetched, model) ==
    [k \in DOMAIN pm |->
        IF /\ k[1] \in fetched
           /\ k[2] = model
           /\ ~CacheFresh(pm, k[1], model)
           /\ WindowLogs(k[1], model, metrics_window_minutes) # <<>>
        THEN analyze_channel_performance(k[1], model, metrics_window_minutes)
        ELSE pm[k]]

\* get_channel_cost_info: model_costs[model], else default_costs, else the
\* provider default; micro-dollars per 1K tokens.
get_channel_cost_info(channel_id, model) ==
    LET ch == channels[channel_id]
    IN  IF model \in DOMAIN ch.model_costs THEN ch.model_costs[model]
        ELSE IF ch.default_costs # NoCosts THEN ch.default_costs
        ELSE CASE ch.type \in {"openai", "azure"} -> [input |-> 10000, output |-> 30000]
               [] ch.type = "anthropic" -> [input |-> 8000, output |-> 24000]
               [] ch.type = "gemini" -> [input |-> 500, output |-> 1500]
               [] OTHER -> [input |-> 10000, output |-> 30000]

\* Scores are exact fractions [n, d], d > 0.
FracLess(a, b) == a.n * b.d < b.n * a.d
FracEq(a, b) == a.n * b.d = b.n * a.d

\* cost_score = average_cost_per_request / max(success_rate, 0.1)
cost_score(pm, channel_id, model) ==
    LET cost_info == get_channel_cost_info(channel_id, model)
        both == cost_info.input + cost_info.output
        metrics == get_channel_performance(pm, channel_id, model)
    IN  IF metrics.total_requests = 0 THEN [n |-> both, d |-> 2]
        ELSE IF 10 * metrics.successes >= metrics.total_requests
             THEN [n |-> both * metrics.total_requests, d |-> 2 * metrics.successes]
             ELSE [n |-> 5 * both, d |-> 1]

\* performance_score = 0.7 * success_rate + 0.3 * max(0, 1 - p95 / 10000),
\* 0.5 without history; the fraction is the score times 100000.
performance_score(pm, channel_id, model) ==
    LET metrics == get_channel_performance(pm, channel_id, model)
    IN  IF metrics.total_requests > 0
        THEN [n |-> 70000 * metrics.successes
                      + 3 * metrics.total_requests * Max(0, 10000 - metrics.p95_latency_ms),
              d |-> metrics.total_requests]
        ELSE [n |-> 50000, d |-> 1]

\* list.sort (stable): the index order of seq by ascending score.
SortedOrder(scores) ==
    LET n == Len(scores)
        Rank(i) == Cardinality({j \in 1..n : FracLess(scores[j], scores[i])})
                   + Cardinality({j \in 1..(i - 1) : FracEq(scores[j], scores[i])}) + 1
    IN  [p \in 1..n |-> CHOOSE i \in 1..n : Rank(i) = p]

\* list.sort(reverse=True) (stable): by descending score.
SortedOrderDesc(scores) ==
    LET n == Len(scores)
        Rank(i) == Cardinality({j \in 1..n : FracLess(scores[i], scores[j])})
                   + Cardinality({j \in 1..(i - 1) : FracEq(scores[j], scores[i])}) + 1
    IN  [p \in 1..n |-> CHOOSE i \in 1..n : Rank(i) = p]

\* _strategy_lowest_cost: the entries within 0.001 of the lowest score, at
\* most the first three of the sorted list; random.choice among them.
strategy_lowest_cost(pm, pool, model) ==
    LET healthy_channels == filter_healthy_channels(pool)
        n == Len(healthy_channels)
        scores == [i \in 1..n |-> cost_score(pm, healthy_channels[i], model)]
        order == SortedOrder(scores)
        lowest_cost == scores[order[1]]
        Close(i) == LET c == scores[i]
                    IN  c.n * lowest_cost.d - lowest_cost.n * c.d < 1000 * c.d * lowest_cost.d
        candidates == SelectSeq(order, Close)
    IN  {healthy_channels[candidates[p]] : p \in 1..Min(3, Len(candidates))}

\* _strategy_best_performance: random.choice among the three best scores.
strategy_best_performance(pm, pool, model) ==
    LET healthy_channels == filter_healthy_channels(pool)
        n == Len(healthy_channels)
        scores == [i \in 1..n |-> performance_score(pm, healthy_channels[i], model)]
        order == SortedOrderDesc(scores)
    IN  {healthy_channels[order[p]] : p \in 1..Min(3, n)}

\* ------------------------------------------ load balancer: sticky routes
\* update_cache_routing
update_cache_routing(cr, user_id, model, channel_id) ==
    IF ~enable_cache_tracking THEN cr
    ELSE LET key == <<user_id, model>>
             existing == cr[key]
         IN  IF existing.present /\ existing.channel_id = channel_id
             THEN [cr EXCEPT ![key].consecutive_hits = @ + 1,
                             ![key].last_used_at = now]
             ELSE [cr EXCEPT ![key] = [present |-> TRUE,
                                       channel_id |-> channel_id,
                                       has_cache_enabled |-> TRUE,
                                       last_used_at |-> now,
                                       consecutive_hits |-> 1]]

\* get_cache_routing_preference: an entry older than the TTL is deleted.
RouteExpired(info) == now - info.last_used_at > cache_routing_ttl_minutes

get_cache_routing_preference(user_id, model) ==
    IF ~enable_cache_tracking THEN NoRoute
    ELSE IF ~cache_routing[<<user_id, model>>].present THEN NoRoute
    ELSE IF RouteExpired(cache_routing[<<user_id, model>>]) THEN NoRoute
    ELSE cache_routing[<<user_id, model>>]

RoutingAfterPreference(user_id, model) ==
    IF /\ enable_cache_tracking
       /\ cache_routing[<<user_id, model>>].present
       /\ RouteExpired(cache_routing[<<user_id, model>>])
    THEN [cache_routing EXCEPT ![<<user_id, model>>] = NoRoute]
    ELSE cache_routing

\* ---------------------------------------------------- load balancer: select
\* The join of channels and model_mappings: active channels mapping model,
\* in row order.
ChannelsForModel(model) ==
    LET rows == SelectSeq(model_mappings, LAMBDA row :
                    /\ row.model_id = model
                    /\ channels[row.channel_id].status = "active")
    IN  [i \in 1..Len(rows) |-> rows[i].channel_id]

\* A sticky lookup that ignores the caller: every caller is routed by the
\* entry of the caller of lowest id.
StickyChoice_anycaller(pool, model, user_id, prefer_cache) ==
    LET cache_info == get_cache_routing_preference(CHOOSE u \in Users : \A v \in Users : u <= v, model)
    IN  IF /\ prefer_cache
           /\ enable_cache_tracking
           /\ cache_info.present
           /\ cache_info.has_cache_enabled
           /\ cache_info.channel_id \in SeqRange(pool)
           /\ is_channel_healthy(cache_info.channel_id)
        THEN cache_info.channel_id
        ELSE None

\* The sticky channel select_optimal_channel returns before any strategy
\* runs, or None.
StickyChoice(pool, model, user_id, prefer_cache) ==
    LET cache_info == get_cache_routing_preference(user_id, model)
    IN  IF /\ prefer_cache
           /\ enable_cache_tracking
           /\ cache_info.present
           /\ cache_info.has_cache_enabled
           /\ cache_info.channel_id \in SeqRange(pool)
           /\ is_channel_healthy(cache_info.channel_id)
        THEN cache_info.channel_id
        ELSE None

StrategyChoices(pool, model, strategy) ==
    CASE strategy = "random" -> strategy_random(pool)
      [] strategy = "weighted" -> strategy_weighted_random(pool)
      [] strategy = "lowest_cost" -> strategy_lowest_cost(performance_metrics, pool, model)
      [] strategy = "performance" -> strategy_best_performance(performance_metrics, pool, model)
      [] OTHER -> strategy_weighted_random(pool)

\* A selection that gives up when no channel of the pool is healthy (degraded
\* mode depends on the fallback to the whole pool).
select_optimal_channel_strict(model, user_id, strategy_arg) ==
    LET strategy == IF strategy_arg = NoStrategy THEN default_strategy ELSE strategy_arg
        pool == ChannelsForModel(model)
        sticky == StickyChoice(pool, model, user_id, enable_cache_tracking)
    IN  IF pool = <<>> THEN {None}
        ELSE IF sticky # None THEN {sticky}
        ELSE IF \A i \in 1..Len(pool) : ~is_channel_healthy(pool[i]) THEN {None}
        ELSE StrategyChoices(pool, model, strategy)

\* select_optimal_channel: the channels one call may return ({None} when no
\* active channel maps the model).  strategy = NoStrategy selects the default
\* strategy, prefer_cache is the global switch.
select_optimal_channel(model, user_id, strategy_arg) ==
    LET strategy == IF strategy_arg = NoStrategy THEN default_strategy ELSE strategy_arg
        prefer_cache == enable_cache_tracking
        pool == ChannelsForModel(model)
        sticky == StickyChoice(pool, model, user_id, prefer_cache)
    IN  IF pool = <<>> THEN {None}
        ELSE IF sticky # None THEN {sticky}
        ELSE StrategyChoices(pool, model, strategy)

\* The state select_optimal_channel leaves behind: the expired sticky entry
\* is deleted, the metrics the strategy fetched are cached.
SelectEffects(model, user_id, strategy_arg) ==
    LET strategy == IF strategy_arg = NoStrategy THEN default_strategy ELSE strategy_arg
        pool == ChannelsForModel(model)
        sticky == StickyChoice(pool, model, user_id, enable_cache_tracking)
        fetched == IF pool # <<>> /\ sticky = None /\ strategy \in {"lowest_cost", "performance"}
                   THEN SeqRange(filter_healthy_channels(pool)) ELSE {}
    IN  /\ cache_routing' = IF pool # <<>> /\ enable_cache_tracking
                            THEN RoutingAfterPreference(user_id, model)
                            ELSE cache_routing
        /\ performance_metrics' = MetricsAfterFetch(performance_metrics, fetched, model)

\* What one call of select_optimal_channel saw and returned.
SelectRecord(model, user_id, strategy_arg, channel_id) ==
    LET pool == ChannelsForModel(model)
    IN  [model |-> model, user_id |-> user_id,
         strategy |-> IF strategy_arg = NoStrategy THEN default_strategy ELSE strategy_arg,
         candidates |-> SeqRange(pool),
         healthy |-> {c \in SeqRange(pool) : is_channel_healthy(c)},
         sticky |-> StickyChoice(pool, model, user_id, enable_cache_tracking),
         channel_id |-> channel_id]

NoSelect == [model |-> "", user_id |-> 0, strategy |-> "", candidates |-> {},
             healthy |-> {}, sticky |-> 0, channel_id |-> 0]

\* What one call of record_request_result, check_channel_health,
\* check_all_channels_health or set_cache_tracking was given: probed are the
\* channels a health check probed, healthy those it found healthy.
NoUsage == [prompt_tokens |-> 0, completion_tokens |-> 0, total_tokens |-> 0]

NoCall == [op |-> "", channel_id |-> 0, model |-> "", user_id |-> 0,
           success |-> FALSE, latency_ms |-> 0, has_cache |-> FALSE,
           probed |-> {}, healthy |-> {}, failures_before |-> <<>>,
           draw |-> 0, window_minutes |-> 0, metrics |-> NoMetrics,
           usage |-> NoUsage, upstream_usage |-> NoUsage, finish_reason |-> "",
           text |-> <<>>, masked |-> <<>>,
           status |-> "", set_models |-> FALSE, models |-> <<>>]

\* ---------------------------------------------------- load balancer: record
\* A Record whose upsert looks at the latency only, not at has_cache.
record_request_result_latency(channel_id, model, user_id, success, latency_ms, has_cache) ==
    IF success
    THEN /\ consecutive_failures' = [consecutive_failures EXCEPT ![channel_id] = 0]
         /\ cache_routing' =
                IF enable_cache_tracking /\ latency_ms < CacheLatencyMs
                THEN update_cache_routing(cache_routing, user_id, model, channel_id)
                ELSE cache_routing
    ELSE /\ consecutive_failures' = [consecutive_failures EXCEPT ![channel_id] = @ + 1]
         /\ cache_routing' =
                IF /\ enable_cache_tracking
                   /\ cache_routing[<<user_id, model>>].present
                   /\ cache_routing[<<user_id, model>>].channel_id = channel_id
                THEN [cache_routing EXCEPT ![<<user_id, model>>] = NoRoute]
                ELSE cache_routing

\* A Record whose success branch leaves the failure counter alone.
record_request_result_keep(channel_id, model, user_id, success, latency_ms, has_cache) ==
    IF success
    THEN /\ UNCHANGED consecutive_failures
         /\ cache_routing' =
                IF enable_cache_tracking /\ (has_cache \/ latency_ms < CacheLatencyMs)
                THEN update_cache_routing(cache_routing, user_id, model, channel_id)
                ELSE cache_routing
    ELSE /\ consecutive_failures' = [consecutive_failures EXCEPT ![channel_id] = @ + 1]
         /\ cache_routing' =
                IF /\ enable_cache_tracking
                   /\ cache_routing[<<user_id, model>>].present
                   /\ cache_routing[<<user_id, model>>].channel_id = channel_id
                THEN [cache_routing EXCEPT ![<<user_id, model>>] = NoRoute]
                ELSE cache_routing

\* A Record whose failure branch counts the failure against every channel.
record_request_result_all(channel_id, model, user_id, success, latency_ms, has_cache) ==
    IF success
    THEN /\ consecutive_failures' = [consecutive_failures EXCEPT ![channel_id] = 0]
         /\ cache_routing' =
                IF enable_cache_tracking /\ (has_cache \/ latency_ms < CacheLatencyMs)
                THEN update_cache_routing(cache_routing, user_id, model, channel_id)
                ELSE cache_routing
    ELSE /\ consecutive_failures' = [c \in DOMAIN consecutive_failures |->
                                        consecutive_failures[c] + 1]
         /\ cache_routing' =
                IF /\ enable_cache_tracking
                   /\ cache_routing[<<user_id, model>>].present
                   /\ cache_routing[<<user_id, model>>].channel_id = channel_id
                THEN [cache_routing EXCEPT ![<<user_id, model>>] = NoRoute]
                ELSE cache_routing

\* record_request_result
record_request_result(channel_id, model, user_id, success, latency_ms, has_cache) ==
    IF success
    THEN /\ consecutive_failures' = [consecutive_failures EXCEPT ![channel_id] = 0]
         /\ cache_routing' =
                IF enable_cache_tracking /\ (has_cache \/ latency_ms < CacheLatencyMs)
                THEN update_cache_routing(cache_routing, user_id, model, channel_id)
                ELSE cache_routing
    ELSE /\ consecutive_failures' = [consecutive_failures EXCEPT ![channel_id] = @ + 1]
         /\ cache_routing' =
                IF /\ enable_cache_tracking
                   /\ cache_routing[<<user_id, model>>].present
                   /\ cache_routing[<<user_id, model>>].channel_id = channel_id
                THEN [cache_routing EXCEPT ![<<user_id, model>>] = NoRoute]
                ELSE cache_routing

\* ------------------------------------------------------ routing pipeline
NewRequest == [pc |-> "new", key |-> 0, model |-> "", used |-> 0,
               selected |-> FALSE, channel |-> 0, stream |-> FALSE,
               tin |-> 0, tout |-> 0, cost |-> 0, upstream |-> "none",
               latency |-> 0, content_null |-> FALSE, chunks |-> 0,
               charged |-> FALSE, resp |-> 0, frames |-> <<>>,
               disconnected |-> FALSE]

UpstreamResults == {"ok", "http_error", "exception"}

\* log_request: one row appended to request_logs.
log_request(r, status, tokens_output, cost, latency_ms) ==
    Append(request_logs,
           [request |-> r,
            api_key_id |-> rq[r].key,
            user_id |-> KeyUser[rq[r].key],
            channel_id |-> rq[r].channel,
            model |-> rq[r].model,
            status |-> status,
            tokens_input |-> rq[r].tin,
            tokens_output |-> tokens_output,
            cost |-> cost,
            latency_ms |-> latency_ms,
            created_at |-> now])

RecordCall(r, success) ==
    [record_calls EXCEPT ![r] = Append(@, [channel_id |-> rq[r].channel,
                                           success |-> success])]

\* chat_completions: the allow-list check (raises ValidationError, 400).
model_not_allowed(k, m) ==
    KeyAllowedModels[k] # {} /\ m \notin KeyAllowedModels[k]

\* A pre-check that lets a key spend exactly its limit (the gate depends on
\* the comparison being >=).
budget_exhausted_strict(limit, used) ==
    limit > 0 /\ used > limit

\* chat_completions: the budget pre-check (raises RateLimitError, 429).
budget_exhausted(limit, used) ==
    limit > 0 /\ used >= limit

\* chat_completions, up to the channel selection: the credential is loaded
\* (budget_used is read here and kept in the session object), then the
\* allow-list check and the budget pre-check.
Begin(r, k, m) ==
    /\ rq[r].pc = "new"
    /\ IF r = 1 THEN TRUE ELSE rq[r - 1].pc # "new"
    /\ rq' = [rq EXCEPT ![r] =
                [@ EXCEPT !.key = k, !.model = m, !.used = budget_used[k],
                          !.pc = IF \/ model_not_allowed(k, m)
                                    \/ budget_exhausted(KeyBudgetLimit[k], budget_used[k])
                                 THEN "done" ELSE "select",
                          !.resp = IF model_not_allowed(k, m) THEN 400
                                   ELSE IF budget_exhausted(KeyBudgetLimit[k], budget_used[k])
                                        THEN 429 ELSE 0]]
    /\ UNCHANGED <<db_vars, lb_vars, now, record_calls>>
    /\ last_select' = NoSelect
    /\ UNCHANGED last_call

\* chat_completions: select_channel_for_model and the dispatch.  The result
\* of the selection is unpacked into (channel, mapping) before it is tested,
\* so a None result raises TypeError, which the application answers with 500.
SelectChannel(r, strategy_arg, stream, len) ==
    /\ rq[r].pc = "select"
    /\ \E c \in select_optimal_channel(rq[r].model, KeyUser[rq[r].key], strategy_arg) :
        /\ SelectEffects(rq[r].model, KeyUser[rq[r].key], strategy_arg)
        /\ last_select' = SelectRecord(rq[r].model, KeyUser[rq[r].key], strategy_arg, c)
        /\ IF c = None
           THEN /\ stream = FALSE
                /\ len = 0
                /\ rq' = [rq EXCEPT ![r] = [@ EXCEPT !.selected = TRUE, !.pc = "done",
                                                     !.resp = 500]]
           ELSE /\ len \in InputLengths
                /\ rq' = [rq EXCEPT ![r] =
                            [@ EXCEPT !.selected = TRUE, !.channel = c,
                                      !.stream = stream,
                                      !.tin = count_tokens(len),
                                      !.pc = IF stream THEN "s_open" ELSE "upstream",
                                      !.resp = IF stream THEN 200 ELSE 0]]
    /\ UNCHANGED <<db_vars, consecutive_failures, health_status,
                   enable_cache_tracking, default_strategy, now, record_calls>>
    /\ UNCHANGED last_call

\* non_stream_chat_completion: the upstream call and the parsing of its
\* response.  The gemini branch rebinds the name api_key to the channel's
\* key string, so api_key.id raises AttributeError both where the success
\* row is built and in either handler: the request ends with 500.
UnaryInvoke(r, result, tout, content_null, latency) ==
    /\ rq[r].pc = "upstream"
    /\ LET type == channels[rq[r].channel].type IN
       CASE type \in {"openai", "azure", "anthropic"} ->
              IF result = "ok"
              THEN rq' = [rq EXCEPT ![r] =
                            [@ EXCEPT !.upstream = "ok", !.tout = tout,
                                      !.content_null = content_null,
                                      !.latency = latency,
                                      !.cost = calculate_cost(rq[r].model, rq[r].tin, tout),
                                      !.pc = "log_ok"]]
              ELSE /\ tout = 0 /\ content_null = FALSE /\ latency \in ErrorLatencies
                   /\ rq' = [rq EXCEPT ![r] =
                            [@ EXCEPT !.upstream = result, !.latency = latency,
                                      !.pc = "log_err"]]
         [] type = "gemini" ->
              /\ tout = 0 /\ content_null = FALSE /\ latency \in ErrorLatencies
              /\ rq' = [rq EXCEPT ![r] =
                            [@ EXCEPT !.upstream = result, !.latency = latency,
                                      !.pc = "done", !.resp = 500]]
         [] OTHER ->
              /\ result = "exception" /\ tout = 0 /\ content_null = FALSE
              /\ latency \in ErrorLatencies
              /\ rq' = [rq EXCEPT ![r] =
                            [@ EXCEPT !.latency = latency, !.pc = "log_err"]]
    /\ UNCHANGED <<db_vars, lb_vars, now, record_calls>>
    /\ last_select' = NoSelect
    /\ UNCHANGED last_call

\* non_stream_chat_completion: the success row is appended.
LogSuccess(r) ==
    /\ rq[r].pc = "log_ok"
    /\ request_logs' = log_request(r, "success", rq[r].tout, rq[r].cost, rq[r].latency)
    /\ rq' = [rq EXCEPT ![r].pc = "budget"]
    /\ UNCHANGED <<channels, model_mappings, budget_used, budget_initial,
                   lb_vars, now, record_calls>>
    /\ last_select' = NoSelect
    /\ UNCHANGED last_call

\* api_key.budget_used = float(api_key.budget_used) + cost; commit.  The
\* session object still holds the value read when the request began.
budget_commit(r) ==
    [budget_used EXCEPT ![rq[r].key] = Numeric4(rq[r].used + rq[r].cost)]

\* non_stream_chat_completion: the budget commit, the Record call and the
\* construction of the response.  ChatMessage.content is a required str: a
\* null upstream content raises here, inside the try block.
BudgetCommit(r) ==
    /\ rq[r].pc = "budget"
    /\ budget_used' = budget_commit(r)
    /\ record_request_result(rq[r].channel, rq[r].model, KeyUser[rq[r].key], TRUE,
                             rq[r].latency, rq[r].latency < CacheLatencyMs)
    /\ record_calls' = RecordCall(r, TRUE)
    /\ rq' = [rq EXCEPT ![r] =
                [@ EXCEPT !.charged = TRUE,
                          !.pc = IF rq[r].content_null THEN "log_err" ELSE "done",
                          !.resp = IF rq[r].content_null THEN 0 ELSE 200]]
    /\ UNCHANGED <<channels, model_mappings, budget_initial, request_logs,
                   health_status, performance_metrics, enable_cache_tracking,
                   default_strategy, now>>
    /\ last_select' = NoSelect
    /\ UNCHANGED last_call

\* non_stream_chat_completion: the handlers of httpx.HTTPStatusError and of
\* Exception: an error row with cost 0, Record(success=False), UpstreamError.
LogError(r) ==
    /\ rq[r].pc = "log_err"
    /\ request_logs' = log_request(r, "error", 0, 0, rq[r].latency)
    /\ record_request_result(rq[r].channel, rq[r].model, KeyUser[rq[r].key], FALSE,
                             rq[r].latency, FALSE)
    /\ record_calls' = RecordCall(r, FALSE)
    /\ rq' = [rq EXCEPT ![r] = [@ EXCEPT !.pc = "done", !.resp = 502]]
    /\ UNCHANGED <<channels, model_mappings, budget_used, budget_initial,
                   health_status, performance_metrics, enable_cache_tracking,
                   default_strategy, now>>
    /\ last_select' = NoSelect
    /\ UNCHANGED last_call

\* stream_chat_completion: the upstream stream is opened.  Only the openai
\* branch exists; for every other channel type no upstream call is made and
\* control falls through to the end of the try block.
StreamOpen(r, result, latency) ==
    /\ rq[r].pc = "s_open"
    /\ IF channels[rq[r].channel].type = "openai"
       THEN /\ latency = 0
            /\ rq' = [rq EXCEPT ![r] =
                        [@ EXCEPT !.upstream = IF result = "ok" THEN "open" ELSE result,
                                  !.pc = IF result = "ok" THEN "s_read" ELSE "s_err"]]
       ELSE /\ result = "ok"
            /\ latency \in Latencies
            /\ rq' = [rq EXCEPT ![r] = [@ EXCEPT !.latency = latency, !.pc = "s_done"]]
    /\ UNCHANGED <<db_vars, lb_vars, now, record_calls>>
    /\ last_select' = NoSelect
    /\ UNCHANGED last_call

\* stream_chat_completion: one data line is read, translated and yielded.
StreamChunk(r, len) ==
    /\ rq[r].pc = "s_read"
    /\ rq[r].chunks < MaxChunks
    /\ rq' = [rq EXCEPT ![r] =
                [@ EXCEPT !.chunks = @ + 1,
                          !.tout = @ + (IF len > 0 THEN count_tokens(len) ELSE 0),
                          !.frames = Append(@, "chunk")]]
    /\ UNCHANGED <<db_vars, lb_vars, now, record_calls>>
    /\ last_select' = NoSelect
    /\ UNCHANGED last_call

\* stream_chat_completion: the upstream stream ends ([DONE] or end of body)
\* or fails while it is read.
StreamUpstreamEnd(r, result, latency) ==
    /\ rq[r].pc = "s_read"
    /\ result \in {"ok", "exception"}
    /\ result = "exception" => latency \in ErrorLatencies
    /\ rq' = [rq EXCEPT ![r] =
                [@ EXCEPT !.upstream = result, !.latency = latency,
                          !.pc = IF result = "ok" THEN "s_done" ELSE "s_err"]]
    /\ UNCHANGED <<db_vars, lb_vars, now, record_calls>>
    /\ last_select' = NoSelect
    /\ UNCHANGED last_call

\* stream_chat_completion: the client disconnects after a chunk was sent.
\* The server cancels the task that iterates the generator: CancelledError
\* (or GeneratorExit when the generator is closed) is raised where the
\* generator is suspended.  Neither is an Exception, so the handler of
\* Exception does not run; leaving the "async with" blocks closes the
\* upstream stream, and the generator ends.
StreamDisconnect(r) ==
    /\ rq[r].pc = "s_read"
    /\ rq[r].chunks >= 1
    /\ rq' = [rq EXCEPT ![r] = [@ EXCEPT !.upstream = "cancelled",
                                         !.disconnected = TRUE,
                                         !.pc = "done"]]
    /\ UNCHANGED <<db_vars, lb_vars, now, record_calls>>
    /\ last_select' = NoSelect
    /\ UNCHANGED last_call

\* stream_chat_completion: "data: [DONE]" is yielded, the cost is computed.
StreamDone(r) ==
    /\ rq[r].pc = "s_done"
    /\ rq' = [rq EXCEPT ![r] =
                [@ EXCEPT !.cost = calculate_cost(rq[r].model, rq[r].tin, rq[r].tout),
                          !.frames = Append(@, "done"),
                          !.pc = "s_log"]]
    /\ UNCHANGED <<db_vars, lb_vars, now, record_calls>>
    /\ last_select' = NoSelect
    /\ UNCHANGED last_call

\* stream_chat_completion: the success row is appended; when the commit
\* inside log_request raises (db_ok = FALSE) no row is written and control
\* passes to the handler of Exception.
StreamLog(r, db_ok) ==
    /\ rq[r].pc = "s_log"
    /\ request_logs' = IF db_ok
                       THEN log_request(r, "success", rq[r].tout, rq[r].cost, rq[r].latency)
                       ELSE request_logs
    /\ rq' = [rq EXCEPT ![r].pc = IF db_ok THEN "s_budget" ELSE "s_err"]
    /\ UNCHANGED <<channels, model_mappings, budget_used, budget_initial,
                   lb_vars, now, record_calls>>
    /\ last_select' = NoSelect
    /\ UNCHANGED last_call

\* stream_chat_completion: the budget commit; the generator ends.  When
\* the commit raises (db_ok = FALSE) the budget is not written and control
\* passes to the handler of Exception.
StreamBudget(r, db_ok) ==
    /\ rq[r].pc = "s_budget"
    /\ budget_used' = IF db_ok THEN budget_commit(r) ELSE budget_used
    /\ rq' = [rq EXCEPT ![r] = [@ EXCEPT !.charged = db_ok,
                                         !.pc = IF db_ok THEN "done" ELSE "s_err"]]
    /\ UNCHANGED <<channels, model_mappings, budget_initial, request_logs,
                   lb_vars, now, record_calls>>
    /\ last_select' = NoSelect
    /\ UNCHANGED last_call

\* stream_chat_completion: the handler of Exception: the error chunk and
\* [DONE] are yielded, an error row with cost 0 is appended.
StreamError(r) ==
    /\ rq[r].pc = "s_err"
    /\ request_logs' = log_request(r, "error", rq[r].tout, 0, rq[r].latency)
    /\ rq' = [rq EXCEPT ![r] = [@ EXCEPT !.frames = @ \o <<"error", "done">>,
                                         !.pc = "done"]]
    /\ UNCHANGED <<channels, model_mappings, budget_used, budget_initial,
                   lb_vars, now, record_calls>>
    /\ last_select' = NoSelect
    /\ UNCHANGED last_call

\* ------------------------------------------------- pipeline specification
PipelineChannels ==
    [c \in 1..6 |->
        [type |-> <<"openai", "azure", "anthropic", "gemini", "mistral", "cohere">>[c],
         weight |-> <<3, 1, 1, 1, 0, 1>>[c],
         status |-> "active",
         model_costs |-> <<>>,
         default_costs |-> NoCosts]]

PipelineMappings ==
    [i \in 1..7 |-> [channel_id |-> IF i = 7 THEN 1 ELSE i,
                     model_id |-> IF i = 7 THEN "custom-model" ELSE "gpt-4"]]

Init ==
    /\ channels = PipelineChannels
    /\ model_mappings = PipelineMappings
    /\ budget_initial \in {b \in [ApiKeys -> InitialBudgetUsed \cup {0}] :
                            b[1] \in InitialBudgetUsed /\ b[2] = 0}
    /\ budget_used = budget_initial
    /\ request_logs = <<>>
    /\ consecutive_failures = [c \in DOMAIN PipelineChannels |-> 0]
    /\ health_status = [c \in DOMAIN PipelineChannels |-> NoStatus]
    /\ performance_metrics = [k \in (DOMAIN PipelineChannels) \X Models |-> NoMetrics]
    /\ cache_routing = [k \in Users \X Models |-> NoRoute]
    /\ enable_cache_tracking = TRUE
    /\ default_strategy = "weighted"
    /\ now = 0
    /\ rq = [r \in Requests |-> NewRequest]
    /\ record_calls = [r \in Requests |-> <<>>]
    /\ last_select = NoSelect
    /\ last_call = NoCall

Next ==
    \E r \in Requests :
        \/ \E k \in ApiKeys, m \in Models : Begin(r, k, m)
        \/ \E s \in Strategies \cup {NoStrategy}, stream \in BOOLEAN, len \in InputLengths \cup {0} :
              SelectChannel(r, s, stream, len)
        \/ \E result \in UpstreamResults, tout \in UpstreamTokens,
              content_null \in BOOLEAN, latency \in Latencies :
              UnaryInvoke(r, result, tout, content_null, latency)
        \/ LogSuccess(r)
        \/ BudgetCommit(r)
        \/ LogError(r)
        \/ \E result \in UpstreamResults, latency \in Latencies \cup {0} :
              StreamOpen(r, result, latency)
        \/ \E len \in ChunkLengths : StreamChunk(r, len)
        \/ \E result \in UpstreamResults, latency \in Latencies :
              StreamUpstreamEnd(r, result, latency)
        \/ StreamDisconnect(r)
        \/ StreamDone(r)
        \/ \E db_ok \in BOOLEAN : StreamLog(r, db_ok)
        \/ \E db_ok \in BOOLEAN : StreamBudget(r, db_ok)
        \/ StreamError(r)

Spec == Init /\ [][Next]_vars

\* Sequential clients: a request is submitted only when no other request is
\* in flight.
Idle == \A q \in Requests : rq[q].pc \in {"new", "done"}

SeqBegin(r, k, m) == Idle /\ Begin(r, k, m)

SeqNext ==
    \E r \in Requests :
        \/ \E k \in ApiKeys, m \in Models : SeqBegin(r, k, m)
        \/ \E s \in Strategies \cup {NoStrategy}, stream \in BOOLEAN, len \in InputLengths \cup {0} :
              SelectChannel(r, s, stream, len)
        \/ \E result \in UpstreamResults, tout \in UpstreamTokens,
              content_null \in BOOLEAN, latency \in Latencies :
              UnaryInvoke(r, result, tout, content_null, latency)
        \/ LogSuccess(r)
        \/ BudgetCommit(r)
        \/ LogError(r)
        \/ \E result \in UpstreamResults, latency \in Latencies \cup {0} :
              StreamOpen(r, result, latency)
        \/ \E len \in ChunkLengths : StreamChunk(r, len)
        \/ \E result \in UpstreamResults, latency \in Latencies :
              StreamUpstreamEnd(r, result, latency)
        \/ StreamDisconnect(r)
        \/ StreamDone(r)
        \/ \E db_ok \in BOOLEAN : StreamLog(r, db_ok)
        \/ \E db_ok \in BOOLEAN : StreamBudget(r, db_ok)
        \/ StreamError(r)

SeqSpec == Init /\ [][SeqNext]_vars

\* ------------------------------------------- load balancer specification
\* The load balancer on its own: its public methods called in any order,
\* as the pipeline, the channel endpoints and the clock drive them.
LBChannels ==
    [c \in 1..3 |->
        [type |-> <<"openai", "mistral", "openai">>[c],
         weight |-> <<1, 2, 1>>[c],
         status |-> <<"active", "active", "inactive">>[c],
         model_costs |-> <<>>,
         default_costs |-> NoCosts]]

LBMappings ==
    [i \in 1..4 |-> [channel_id |-> <<1, 2, 3, 3>>[i],
                     model_id |-> <<"gpt-4", "gpt-4", "gpt-4", "custom-model">>[i]]]

LBModels == {"gpt-4", "custom-model"}
LBUsers == {1}
\* Callers that select; caller 2 never records, so it owns no sticky route.
LBCallers == {1, 2}

pipeline_vars == <<rq, record_calls>>

\* No call of the load balancer is waiting to be taken by its caller.
Returned == last_select = NoSelect /\ last_call = NoCall

\* select_optimal_channel(db, model, user_id, strategy); the caller takes
\* the result (LBReturn) before the next call is made.
LBSelect(model, user_id, strategy_arg) ==
    /\ Returned
    /\ \E c \in select_optimal_channel(model, user_id, strategy_arg) :
          last_select' = SelectRecord(model, user_id, strategy_arg, c)
    /\ SelectEffects(model, user_id, strategy_arg)
    /\ UNCHANGED <<db_vars, consecutive_failures, health_status,
                   enable_cache_tracking, default_strategy, now, pipeline_vars, last_call>>

\* record_request_result(channel_id, model, user_id, success, latency_ms, has_cache)
LBRecord(channel_id, model, user_id, success, latency_ms, has_cache) ==
    /\ Returned
    /\ channel_id \in SeqRange(ChannelsForModel(model))
    /\ ~success => consecutive_failures[channel_id] < MaxFailures
    /\ success => cache_routing[<<user_id, model>>].consecutive_hits < MaxHits
    /\ record_request_result(channel_id, model, user_id, success, latency_ms, has_cache)
    /\ last_call' = [NoCall EXCEPT !.op = "record", !.channel_id = channel_id,
                                   !.model = model, !.user_id = user_id,
                                   !.success = success, !.latency_ms = latency_ms,
                                   !.has_cache = has_cache,
                                   !.failures_before = consecutive_failures]
    /\ UNCHANGED <<db_vars, health_status, performance_metrics,
                   enable_cache_tracking, default_strategy, now, pipeline_vars, last_select>>

\* What the probe of a channel reports: channel types without a probe are
\* reported healthy; probe_ok is what the provider's probe returned (False
\* also stands for a probe that raised or timed out).
ProbeResult(channel_id, probe_ok) ==
    IF channels[channel_id].type \in {"openai", "azure", "anthropic", "gemini"}
    THEN probe_ok ELSE TRUE

\* The tables after check_channel_health ran for the channels in probed and
\* found those in healthy healthy.
\* A probe update whose healthy branch keeps the failure counter.
HealthAfterProbe_keep(probed, healthy) ==
    /\ consecutive_failures' =
          [c \in DOMAIN consecutive_failures |->
              IF c \notin probed \/ c \in healthy THEN consecutive_failures[c]
              ELSE consecutive_failures[c] + 1]
    /\ health_status' =
          [c \in DOMAIN health_status |->
              IF c \notin probed THEN health_status[c]
              ELSE [present |-> TRUE,
                    is_healthy |-> c \in healthy,
                    last_check_time |-> now,
                    consecutive_failures |-> IF c \in healthy THEN 0
                                             ELSE consecutive_failures[c] + 1]]

HealthAfterProbe(probed, healthy) ==
    /\ consecutive_failures' =
          [c \in DOMAIN consecutive_failures |->
              IF c \notin probed THEN consecutive_failures[c]
              ELSE IF c \in healthy THEN 0 ELSE consecutive_failures[c] + 1]
    /\ health_status' =
          [c \in DOMAIN health_status |->
              IF c \notin probed THEN health_status[c]
              ELSE [present |-> TRUE,
                    is_healthy |-> c \in healthy,
                    last_check_time |-> now,
                    consecutive_failures |-> IF c \in healthy THEN 0
                                             ELSE consecutive_failures[c] + 1]]

\* check_channel_health(channel, db)
check_channel_health(channel_id, probe_ok) ==
    LET healthy == IF ProbeResult(channel_id, probe_ok) THEN {channel_id} ELSE {}
    IN  /\ Returned
        /\ channels[channel_id].status = "active"
        /\ healthy = {} => consecutive_failures[channel_id] < MaxFailures
        /\ HealthAfterProbe({channel_id}, healthy)
        /\ last_call' = [NoCall EXCEPT !.op = "probe", !.channel_id = channel_id,
                                       !.probed = {channel_id}, !.healthy = healthy,
                                       !.failures_before = consecutive_failures]
        /\ UNCHANGED <<db_vars, performance_metrics, cache_routing,
                       enable_cache_tracking, default_strategy, now, pipeline_vars,
                       last_select>>

\* check_all_channels_health(db): every active channel is probed; ok are the
\* channels whose provider probe returned True.
check_all_channels_health(ok) ==
    LET probed == {c \in ChannelIds : channels[c].status = "active"}
        healthy == {c \in probed : ProbeResult(c, c \in ok)}
    IN  /\ Returned
        /\ ok \subseteq probed
        /\ \A c \in probed \ healthy : consecutive_failures[c] < MaxFailures
        /\ HealthAfterProbe(probed, healthy)
        /\ last_call' = [NoCall EXCEPT !.op = "probe_all", !.probed = probed,
                                       !.healthy = healthy,
                                       !.failures_before = consecutive_failures]
        /\ UNCHANGED <<db_vars, performance_metrics, cache_routing,
                       enable_cache_tracking, default_strategy, now, pipeline_vars,
                       last_select>>

\* set_cache_tracking(enabled)
set_cache_tracking(enabled) ==
    /\ Returned
    /\ enable_cache_tracking' = enabled
    /\ last_call' = [NoCall EXCEPT !.op = "set_cache_tracking", !.success = enabled]
    /\ UNCHANGED <<db_vars, consecutive_failures, health_status, performance_metrics,
                   cache_routing, default_strategy, now, pipeline_vars, last_select>>

\* The clock advances by one sticky-route TTL, which is also the age at
\* which a health status and a metrics cache entry stop being fresh.
Tick ==
    /\ Returned
    /\ now + cache_routing_ttl_minutes <= MaxNow
    /\ now' = now + cache_routing_ttl_minutes
    /\ UNCHANGED <<db_vars, lb_vars, pipeline_vars, last_select, last_call>>

\* The caller has taken the result of its call.
LBReturn ==
    /\ ~Returned
    /\ last_select' = NoSelect
    /\ last_call' = NoCall
    /\ UNCHANGED <<db_vars, lb_vars, now, pipeline_vars>>

InitLB ==
    /\ channels = LBChannels
    /\ model_mappings = LBMappings
    /\ budget_initial = [k \in ApiKeys |-> 0]
    /\ budget_used = budget_initial
    /\ request_logs = <<>>
    /\ consecutive_failures = [c \in DOMAIN LBChannels |-> 0]
    /\ health_status = [c \in DOMAIN LBChannels |-> NoStatus]
    /\ performance_metrics = [k \in (DOMAIN LBChannels) \X Models |-> NoMetrics]
    /\ cache_routing = [k \in Users \X Models |-> NoRoute]
    /\ enable_cache_tracking = TRUE
    /\ default_strategy = "weighted"
    /\ now = 0
    /\ rq = [r \in Requests |-> NewRequest]
    /\ record_calls = [r \in Requests |-> <<>>]
    /\ last_select = NoSelect
    /\ last_call = NoCall

NextLB ==
    \/ \E m \in LBModels, u \in LBCallers, s \in Strategies \cup {NoStrategy} : LBSelect(m, u, s)
    \/ \E c \in ChannelIds, m \in LBModels, u \in LBUsers, success \in BOOLEAN,
          latency \in Latencies, has_cache \in BOOLEAN :
          LBRecord(c, m, u, success, latency, has_cache)
    \/ \E c \in ChannelIds, probe_ok \in BOOLEAN : check_channel_health(c, probe_ok)
    \/ \E ok \in SUBSET ChannelIds : check_all_channels_health(ok)
    \/ \E enabled \in BOOLEAN : set_cache_tracking(enabled)
    \/ Tick
    \/ LBReturn

SpecLB == InitLB /\ [][NextLB]_vars


\* ------------------------------------- weighted-random specification
\* _strategy_weighted_random on its own: three active channels that map
\* gpt-4, with every combination of weights in 0..MaxWeight (the schema
\* admits weight >= 0), and every value of the draw.  random.uniform(0, t)
\* returns a float in the closed range [0, t]; a draw between two integers
\* selects as the next integer does, so integer draws cover every case.
WRModel == "gpt-4"

WRChannelSets ==
    {[c \in 1..3 |->
        [type |-> "openai", weight |-> w[c], status |-> "active",
         model_costs |-> <<>>, default_costs |-> NoCosts]] :
     w \in [1..3 -> 0..MaxWeight]}

WRMappings == [i \in 1..3 |-> [channel_id |-> i, model_id |-> WRModel]]

WRPool == filter_healthy_channels(ChannelsForModel(WRModel))
WRTotal == SumWeights(WRPool, Len(WRPool))

InitWR ==
    /\ channels \in WRChannelSets
    /\ model_mappings = WRMappings
    /\ budget_initial = [k \in ApiKeys |-> 0]
    /\ budget_used = budget_initial
    /\ request_logs = <<>>
    /\ consecutive_failures = [c \in 1..3 |-> 0]
    /\ health_status = [c \in 1..3 |-> NoStatus]
    /\ performance_metrics = [k \in (1..3) \X Models |-> NoMetrics]
    /\ cache_routing = [k \in Users \X Models |-> NoRoute]
    /\ enable_cache_tracking = TRUE
    /\ default_strategy = "weighted"
    /\ now = 0
    /\ rq = [r \in Requests |-> NewRequest]
    /\ record_calls = [r \in Requests |-> <<>>]
    /\ last_select = NoSelect
    /\ last_call = NoCall

\* One call of _strategy_weighted_random with draw r.
WRDraw(r) ==
    /\ Returned
    /\ r \in 0..WRTotal
    /\ last_call' = [NoCall EXCEPT !.op = "weighted_random", !.model = WRModel,
                                   !.draw = r,
                                   !.channel_id = weighted_pick(WRPool, r)]
    /\ UNCHANGED <<db_vars, lb_vars, now, pipeline_vars, last_select>>

NextWR ==
    \/ \E r \in 0..(3 * MaxWeight) : WRDraw(r)
    \/ LBReturn

SpecWR == InitWR /\ [][NextWR]_vars


\* ------------------------------------------- metrics specification
\* The metrics cache on its own: outcomes are appended to request_logs,
\* the admin endpoint GET /channels/{id}/performance analyses a channel
\* over the window it is given, Select runs the two strategies that read
\* metrics, and the clock advances.
PerfModel == "gpt-4"
PerfChannels == {1, 2}
PerfStrategies == {"lowest_cost", "performance"}
PerfLatencies == {0, 100}
\* window_minutes of the admin query: Query(30, ge=5, le=1440).
AdminWindows == {5, 30}

InitPerf == InitLB

\* log_request as the load balancer sees it: a row of request_logs.
PerfLog(channel_id, status, latency_ms) ==
    /\ Returned
    /\ Len(request_logs) < MaxLogs
    /\ status = "error" => latency_ms = 100
    /\ request_logs' = Append(request_logs,
           [request |-> 0, api_key_id |-> 1, user_id |-> 1,
            channel_id |-> channel_id, model |-> PerfModel, status |-> status,
            tokens_input |-> 0, tokens_output |-> 0, cost |-> 0,
            latency_ms |-> latency_ms, created_at |-> now])
    /\ UNCHANGED <<channels, model_mappings, budget_used, budget_initial, lb_vars,
                   now, pipeline_vars, last_select, last_call>>

\* GET /channels/{channel_id}/performance?model=...&window_minutes=...:
\* analyze_channel_performance with the window of the query; the result is
\* stored in the cache unless the window has no rows.
AdminPerformance(channel_id, window_minutes) ==
    LET metrics == analyze_channel_performance(channel_id, PerfModel, window_minutes)
    IN  /\ Returned
        /\ performance_metrics' =
              IF WindowLogs(channel_id, PerfModel, window_minutes) # <<>>
              THEN [performance_metrics EXCEPT ![<<channel_id, PerfModel>>] = metrics]
              ELSE performance_metrics
        /\ last_call' = [NoCall EXCEPT !.op = "analyze", !.channel_id = channel_id,
                                       !.model = PerfModel,
                                       !.window_minutes = window_minutes,
                                       !.metrics = metrics]
        /\ UNCHANGED <<db_vars, consecutive_failures, health_status, cache_routing,
                       enable_cache_tracking, default_strategy, now, pipeline_vars,
                       last_select>>

NextPerf ==
    \/ \E c \in PerfChannels, st \in {"success", "error"}, l \in PerfLatencies :
          PerfLog(c, st, l)
    \/ \E c \in PerfChannels, w \in AdminWindows : AdminPerformance(c, w)
    \/ \E st \in PerfStrategies : LBSelect(PerfModel, 1, st)
    \/ Tick
    \/ LBReturn

SpecPerf == InitPerf /\ [][NextPerf]_vars


\* ------------------------------------------ response and key presentation
\* The Anthropic branch of non_stream_chat_completion: the upstream body is
\* rewritten to the OpenAI shape.
anthropic_to_openai(input_tokens, output_tokens, stop_reason) ==
    [finish_reason |-> CASE stop_reason = "max_tokens" -> "length"
                         [] stop_reason = "stop_sequence" -> "stop"
                         [] OTHER -> stop_reason,
     usage |-> [prompt_tokens |-> input_tokens,
                completion_tokens |-> output_tokens,
                total_tokens |-> input_tokens + output_tokens]]

\* non_stream_chat_completion: the response built from upstream_data (which
\* holds a usage object on the Anthropic branch) and from input_tokens, the
\* local estimate count_tokens("\n".join(contents)).
unary_response(input_tokens, upstream_data) ==
    [finish_reason |-> upstream_data.finish_reason,
     usage |-> [prompt_tokens |-> input_tokens,
                completion_tokens |-> upstream_data.usage.completion_tokens,
                total_tokens |-> upstream_data.usage.total_tokens]]

\* Strings are sequences of one-character strings.
Stars(n) == [i \in 1..n |-> "*"]
Filler(n) == [i \in 1..n |-> <<"a", "b", "c", "d", "e">>[(i % 5) + 1]]
KeyPrefix == <<"s", "k", "-", "l", "l", "m", "w", "e", "a", "v", "e", "r", "-">>
\* generate_api_key: sk-llmweaver- and 32 random characters.
RawKey == KeyPrefix \o Filler(32)
\* hash_api_key: a bcrypt hash, $2b$12$ and 53 characters.
KeyHash == <<"$", "2", "b", "$", "1", "2", "$">> \o Filler(53)

\* mask_api_key
mask_api_key(api_key) ==
    IF Len(api_key) <= 12
    THEN Stars(Len(api_key))
    ELSE SubSeq(api_key, 1, 12) \o Stars(Len(api_key) - 16)
            \o SubSeq(api_key, Len(api_key) - 3, Len(api_key))

\* Lengths of the request text, token counts and stop reasons an Anthropic
\* upstream reports.
TextLengths == {0, 3, 18, 20}
AnthropicInputTokens == {1, 2, 7}
AnthropicOutputTokens == {0, 3, 5}
StopReasons == {"end_turn", "max_tokens", "stop_sequence", "tool_use"}
MaskInputs == {Filler(n) : n \in 0..MaxKeyLen} \cup {RawKey, KeyHash}

\* A unary request served by an Anthropic channel, up to the response.
UnaryAnthropic(len, input_tokens, output_tokens, stop_reason) ==
    LET upstream_data == anthropic_to_openai(input_tokens, output_tokens, stop_reason)
        response == unary_response(count_tokens(len), upstream_data)
    IN  /\ Returned
        /\ last_call' = [NoCall EXCEPT !.op = "unary_anthropic",
                                       !.upstream_usage = upstream_data.usage,
                                       !.usage = response.usage,
                                       !.model = stop_reason,
                                       !.finish_reason = response.finish_reason]
        /\ UNCHANGED <<db_vars, lb_vars, now, pipeline_vars, last_select>>

\* mask_api_key applied to a string.
MaskKey(api_key) ==
    /\ Returned
    /\ last_call' = [NoCall EXCEPT !.op = "mask_api_key", !.text = api_key,
                                   !.masked = mask_api_key(api_key)]
    /\ UNCHANGED <<db_vars, lb_vars, now, pipeline_vars, last_select>>

\* api_key_to_response: the key_mask of a stored key is built from key_hash.
api_key_to_response(key_hash) ==
    /\ Returned
    /\ last_call' = [NoCall EXCEPT !.op = "api_key_to_response", !.text = key_hash,
                                   !.masked = mask_api_key(key_hash)]
    /\ UNCHANGED <<db_vars, lb_vars, now, pipeline_vars, last_select>>

InitFn == InitLB

NextFn ==
    \/ \E len \in TextLengths, i \in AnthropicInputTokens, o \in AnthropicOutputTokens,
          sr \in StopReasons : UnaryAnthropic(len, i, o, sr)
    \/ \E k \in MaskInputs : MaskKey(k)
    \/ api_key_to_response(KeyHash)
    \/ LBReturn

SpecFn == InitFn /\ [][NextFn]_vars


\* ------------------------------------------- channel administration
\* A field of ChannelUpdate that the request leaves unset.
NoField == ""
NoWeight == 0 - 1

\* PUT /channels/{channel_id}: the fields of the request that are set are
\* written; when models is given the old rows are read with a select and
\* one row per item is added.
update_channel(channel_id, status, weight, set_models, models) ==
    LET added == [i \in 1..Len(models) |->
                     [channel_id |-> channel_id, model_id |-> models[i]]]
    IN  /\ Returned
        /\ channels' = [channels EXCEPT ![channel_id] =
                           [@ EXCEPT !.status = IF status = NoField THEN @ ELSE status,
                                     !.weight = IF weight = NoWeight THEN @ ELSE weight]]
        /\ model_mappings' = IF set_models THEN model_mappings \o added
                             ELSE model_mappings
        /\ Len(model_mappings') <= MaxMappings
        /\ last_call' = [NoCall EXCEPT !.op = "update_channel",
                                       !.channel_id = channel_id,
                                       !.status = status,
                                       !.set_models = set_models,
                                       !.models = IF set_models THEN models ELSE <<>>]
        /\ UNCHANGED <<budget_used, budget_initial, request_logs, lb_vars, now,
                       pipeline_vars, last_select>>

\* DELETE /channels/{channel_id}: soft delete.
delete_channel(channel_id) ==
    /\ Returned
    /\ channels' = [channels EXCEPT ![channel_id].status = "inactive"]
    /\ last_call' = [NoCall EXCEPT !.op = "delete_channel", !.channel_id = channel_id]
    /\ UNCHANGED <<model_mappings, budget_used, budget_initial, request_logs,
                   lb_vars, now, pipeline_vars, last_select>>

\* POST /channels/{channel_id}/test: one request to the provider (none for a
\* type without a test); request_ok is what that request did.
test_channel(channel_id, request_ok) ==
    LET success == IF channels[channel_id].type \in {"openai", "azure", "anthropic", "gemini"}
                   THEN request_ok ELSE TRUE
    IN  /\ Returned
        /\ channels' = [channels EXCEPT ![channel_id].status =
                           IF success THEN "active" ELSE "error"]
        /\ last_call' = [NoCall EXCEPT !.op = "test_channel", !.channel_id = channel_id,
                                       !.success = success]
        /\ UNCHANGED <<model_mappings, budget_used, budget_initial, request_logs,
                       lb_vars, now, pipeline_vars, last_select>>

\* POST /channels/{channel_id}/health-check: check_channel_health for the channel
\* of the path, whatever its status.
admin_check_channel_health(channel_id, probe_ok) ==
    LET healthy == IF ProbeResult(channel_id, probe_ok) THEN {channel_id} ELSE {}
    IN  /\ Returned
        /\ healthy = {} => consecutive_failures[channel_id] < MaxFailures
        /\ HealthAfterProbe({channel_id}, healthy)
        /\ last_call' = [NoCall EXCEPT !.op = "probe", !.channel_id = channel_id,
                                       !.probed = {channel_id}, !.healthy = healthy,
                                       !.failures_before = consecutive_failures]
        /\ UNCHANGED <<db_vars, performance_metrics, cache_routing,
                       enable_cache_tracking, default_strategy, now, pipeline_vars,
                       last_select>>

AdminChannels == {3}
AdminModel == "gpt-4"
AdminStatuses == {NoField, "active", "inactive", "error"}
AdminWeights == {NoWeight, 1}
AdminModelLists == {<<>>, <<"gpt-4">>, <<"gpt-4", "custom-model">>}

\* Every channel is created active.
InitAdmin ==
    /\ channels = [c \in DOMAIN LBChannels |-> [LBChannels[c] EXCEPT !.status = "active"]]
    /\ model_mappings = LBMappings
    /\ budget_initial = [k \in ApiKeys |-> 0]
    /\ budget_used = budget_initial
    /\ request_logs = <<>>
    /\ consecutive_failures = [c \in DOMAIN LBChannels |-> 0]
    /\ health_status = [c \in DOMAIN LBChannels |-> NoStatus]
    /\ performance_metrics = [k \in (DOMAIN LBChannels) \X Models |-> NoMetrics]
    /\ cache_routing = [k \in Users \X Models |-> NoRoute]
    /\ enable_cache_tracking = TRUE
    /\ default_strategy = "weighted"
    /\ now = 0
    /\ rq = [r \in Requests |-> NewRequest]
    /\ record_calls = [r \in Requests |-> <<>>]
    /\ last_select = NoSelect
    /\ last_call = NoCall

NextAdmin ==
    \/ \E c \in AdminChannels, st \in AdminStatuses, w \in AdminWeights,
          set_models \in BOOLEAN, L \in AdminModelLists :
          update_channel(c, st, w, set_models, L)
    \/ \E c \in AdminChannels : delete_channel(c)
    \/ \E c \in AdminChannels, request_ok \in BOOLEAN : test_channel(c, request_ok)
    \/ \E c \in AdminChannels, probe_ok \in BOOLEAN : admin_check_channel_health(c, probe_ok)
    \/ \E u \in LBUsers : LBSelect(AdminModel, u, "random")
    \/ \E c \in AdminChannels, success \in BOOLEAN :
          LBRecord(c, AdminModel, 1, success, 20, TRUE)
    \/ Tick
    \/ LBReturn

SpecAdmin == InitAdmin /\ [][NextAdmin]_vars

\* ------------------------------------------------------------ properties
Done(r) == rq[r].pc = "done"

LogsOf(r) == SelectSeq(request_logs, LAMBDA log : log.request = r)
SuccessLogsOf(r) == SelectSeq(request_logs, LAMBDA log : log.request = r /\ log.status = "success")

RECURSIVE SumStoredCost(_)
SumStoredCost(logs) ==
    IF logs = <<>> THEN 0 ELSE Numeric4(Head(logs).cost) + SumStoredCost(Tail(logs))

SuccessLogsOfKey(k) ==
    SelectSeq(request_logs, LAMBDA log : log.api_key_id = k /\ log.status = "success")

\* C1: no budget increment is lost under concurrency: once all requests
\* have committed, budget_used of every key is at least its initial value
\* plus the sum of the costs of the key's success outcomes (each cost taken
\* at the four decimals the budget column stores).
C1_NoLostIncrement ==
    Idle =>
        \A k \in ApiKeys :
            budget_used[k] >= budget_initial[k] + SumStoredCost(SuccessLogsOfKey(k))

\* C2: exactly one RequestOutcome is appended per request that reached a
\* selected channel: never two, and one once the request has ended.
C2_ExactlyOneOutcome ==
    \A r \in Requests :
        rq[r].channel # None =>
            /\ Len(LogsOf(r)) <= 1
            /\ Done(r) => Len(LogsOf(r)) = 1

\* C3: every request that invoked a channel ends with exactly one Record
\* call for that channel, unary or streaming, success or failure, and no
\* Record call precedes the end of the upstream response or Select.
C3_ExactlyOneRecord ==
    \A r \in Requests :
        /\ Len(record_calls[r]) > 0 =>
              /\ rq[r].selected
              /\ rq[r].upstream # "open"
              /\ \A i \in 1..Len(record_calls[r]) :
                    record_calls[r][i].channel_id = rq[r].channel
        /\ (Done(r) /\ rq[r].upstream # "none") => Len(record_calls[r]) = 1

\* C4: a request for a model no active channel maps is rejected with
\* NoUpstream (HTTP 404) before any upstream I/O, with no outcome appended
\* and budget_used unchanged.
C4_NoUpstream404 ==
    \A r \in Requests :
        (Done(r) /\ rq[r].selected /\ rq[r].channel = None) =>
            /\ rq[r].resp = 404
            /\ rq[r].upstream = "none"
            /\ LogsOf(r) = <<>>
            /\ ~rq[r].charged

\* C5: a request whose credential has a non-empty allowed_models without
\* request.model is rejected with Forbidden (HTTP 403) before Select and
\* before any upstream I/O.
C5_Forbidden403 ==
    \A r \in Requests :
        (rq[r].pc # "new" /\ model_not_allowed(rq[r].key, rq[r].model)) =>
            /\ rq[r].resp = 403
            /\ ~rq[r].selected
            /\ rq[r].upstream = "none"

C7_BudgetMonotone ==
    [][/\ \A k \in ApiKeys : budget_used'[k] >= budget_used[k]
       /\ \A r \in Requests :
             (\E i \in 1..Len(request_logs') :
                 /\ request_logs'[i].request = r
                 /\ request_logs'[i].status = "error") => ~rq'[r].charged]_vars

\* C8: a success outcome is appended, and budget_used incremented, only for
\* a request whose selected channel returned an upstream response.
C8_SuccessAfterUpstream ==
    \A r \in Requests :
        (SuccessLogsOf(r) # <<>> \/ rq[r].charged) =>
            /\ rq[r].channel # None
            /\ rq[r].upstream = "ok"

\* C9: for every Select call, whatever the health table, the strategy or
\* the sticky route: if at least one active channel mapping the model
\* satisfies the health predicate, the returned channel satisfies it.
C9_SelectHealthy ==
    (last_select # NoSelect /\ last_select.healthy # {}) =>
        last_select.channel_id \in last_select.healthy

\* C9 witness: Select returned a healthy channel while another active
\* channel mapping the model was unhealthy.
C9_Witness ==
    /\ last_select # NoSelect
    /\ last_select.healthy # {}
    /\ last_select.candidates \ last_select.healthy # {}
    /\ last_select.channel_id \in last_select.healthy

\* C10: degraded mode: when active channels map the model but none
\* satisfies the health predicate, Select still returns one of them.
C10_DegradedMode ==
    (last_select # NoSelect /\ last_select.candidates # {} /\ last_select.healthy = {}) =>
        last_select.channel_id \in last_select.candidates

\* C10 witness: Select returned a channel although every active channel
\* mapping the model was unhealthy.
C10_Witness ==
    /\ last_select # NoSelect
    /\ Cardinality(last_select.candidates) > 1
    /\ last_select.healthy = {}
    /\ last_select.channel_id \in last_select.candidates
    /\ ~is_channel_healthy(last_select.channel_id)

\* ------------------------------------------ properties of the load balancer
IsSelect(sel) == sel # NoSelect
IsRecord(call) == call.op = "record"
IsProbe(call) == call.op \in {"probe", "probe_all"}

\* C11: a failure Record adds one to the channel's count; once the count
\* has reached max_consecutive_failures, every Select for a model that a
\* healthy channel also maps returns another channel, for every caller and
\* strategy; and the count goes down only by a success Record or a healthy
\* probe of that channel.
C11_FailureExclusion ==
    [][\A c \in ChannelIds :
          /\ (IsRecord(last_call') /\ ~last_call'.success /\ last_call'.channel_id = c) =>
                consecutive_failures'[c] = consecutive_failures[c] + 1
          /\ (/\ consecutive_failures[c] >= max_consecutive_failures
              /\ IsSelect(last_select')
              /\ last_select'.healthy # {}) =>
                last_select'.channel_id # c
          /\ consecutive_failures'[c] < consecutive_failures[c] =>
                \/ IsRecord(last_call') /\ last_call'.success /\ last_call'.channel_id = c
                \/ IsProbe(last_call') /\ c \in last_call'.healthy]_vars

\* C11 witness: a channel never probed has max_consecutive_failures
\* failures, and a weighted-random Select for a model it maps returned the
\* other, healthy channel.
C11_Witness ==
    /\ IsSelect(last_select)
    /\ last_select.strategy = "weighted"
    /\ last_select.sticky = None
    /\ \E c \in last_select.candidates :
          /\ consecutive_failures[c] = max_consecutive_failures
          /\ ~health_status[c].present
          /\ last_select.healthy = last_select.candidates \ {c}
          /\ last_select.channel_id \in last_select.healthy

\* C12: a probe that finds the channel healthy sets its failure count to 0
\* and is_healthy to true, and the health predicate then holds for it, so
\* the Select that follows has it in its healthy pool; a probe that fails
\* adds exactly 1 to the count and sets is_healthy to false; both set
\* last_check_time to the time of the probe.
C12_ProbeOutcome ==
    [][/\ IsProbe(last_call') =>
             \A c \in last_call'.probed :
                /\ health_status'[c].present
                /\ health_status'[c].last_check_time = now'
                /\ c \in last_call'.healthy =>
                      /\ consecutive_failures'[c] = 0
                      /\ health_status'[c].is_healthy
                      /\ is_channel_healthy(c)'
                /\ c \notin last_call'.healthy =>
                      /\ consecutive_failures'[c] = consecutive_failures[c] + 1
                      /\ ~health_status'[c].is_healthy
                      /\ ~is_channel_healthy(c)'
       /\ (IsProbe(last_call) /\ UNCHANGED lb_vars) =>
             \A c \in last_call.healthy : is_channel_healthy(c)']_vars

\* C12 witness: a channel probed over HTTP that max_consecutive_failures
\* failures had excluded was probed healthy: its count is 0 again and the
\* health predicate holds for it.
C12_Witness ==
    /\ last_call.op = "probe"
    /\ \E c \in last_call.healthy :
          /\ channels[c].type = "openai"
          /\ last_call.failures_before[c] = max_consecutive_failures
          /\ consecutive_failures[c] = 0
          /\ health_status[c].is_healthy
          /\ is_channel_healthy(c)

\* C13: after a Record with success = true for a channel, the failure count
\* of that channel is 0, whatever it was before, and it is still 0 when the
\* call has returned, which is the count the following Select reads.
C13_SuccessResets ==
    [][/\ (IsRecord(last_call') /\ last_call'.success) =>
             consecutive_failures'[last_call'.channel_id] = 0
       /\ (IsRecord(last_call) /\ last_call.success) =>
             consecutive_failures'[last_call.channel_id] = 0]_vars

\* C13 witness: a success Record for a channel that had reached
\* max_consecutive_failures failures and had last been probed unhealthy.
C13_Witness ==
    /\ IsRecord(last_call)
    /\ last_call.success
    /\ last_call.failures_before[last_call.channel_id] = max_consecutive_failures
    /\ health_status[last_call.channel_id].present
    /\ ~health_status[last_call.channel_id].is_healthy
    /\ consecutive_failures[last_call.channel_id] = 0

\* The Record call a step of request r appends, if it appends one.
Recorded(r) == Len(record_calls'[r]) > Len(record_calls[r])
LastRecord(r) == record_calls'[r][Len(record_calls'[r])]

\* C14: every Record with success = false adds exactly 1 to the failure
\* count of its channel and leaves the count of every other channel as it
\* was, also when the failure Records come from requests in flight together.
C14_FailureAddsOne ==
    [][\A r \in Requests :
          (Recorded(r) /\ ~LastRecord(r).success) =>
              consecutive_failures' =
                  [consecutive_failures EXCEPT ![LastRecord(r).channel_id] = @ + 1]]_vars

\* C14 witness: two requests failed on the same channel and both failures
\* are counted.
C14_Witness ==
    \E c \in ChannelIds :
       /\ \A r \in Requests :
             /\ rq[r].pc = "done"
             /\ record_calls[r] = <<[channel_id |-> c, success |-> FALSE]>>
       /\ consecutive_failures[c] = 2
       /\ \A d \in ChannelIds \ {c} : consecutive_failures[d] = 0

\* C15: is_channel_healthy(C) is true iff the failure count of C is below
\* max_consecutive_failures and either C has no probe result younger than
\* five minutes or that probe result says healthy.
RecentProbe(c) ==
    health_status[c].present /\ now - health_status[c].last_check_time < 5

C15_HealthPredicate ==
    \A c \in ChannelIds :
       is_channel_healthy(c) <=>
          /\ consecutive_failures[c] < 3
          /\ (~RecentProbe(c) \/ health_status[c].is_healthy)

\* C15 witness: a channel with a count below the threshold whose last probe
\* failed exactly five minutes ago passes the predicate again, while another
\* channel with a fresh healthy probe fails it on its count alone.
C15_Witness ==
    /\ Returned
    /\ \E c \in ChannelIds :
          /\ health_status[c].present
          /\ ~health_status[c].is_healthy
          /\ now - health_status[c].last_check_time = 5
          /\ consecutive_failures[c] \in 1..2
          /\ is_channel_healthy(c)
    /\ \E d \in ChannelIds :
          /\ RecentProbe(d)
          /\ health_status[d].is_healthy
          /\ consecutive_failures[d] = 3
          /\ ~is_channel_healthy(d)

\* C16: with sticky routing enabled, if the entry of (caller, model) is not
\* older than the TTL and points to an active channel that maps the model
\* and passes the health predicate, every Select for (caller, model)
\* returns that channel, whatever the strategy and the weights; a Select
\* for a key that has no entry is decided by its strategy alone, and no
\* Select changes the entry of another key.
ValidRoute(user_id, model) ==
    LET info == cache_routing[<<user_id, model>>]
    IN  /\ enable_cache_tracking
        /\ info.present
        /\ now - info.last_used_at <= cache_routing_ttl_minutes
        /\ channels[info.channel_id].status = "active"
        /\ \E i \in DOMAIN model_mappings :
              /\ model_mappings[i].model_id = model
              /\ model_mappings[i].channel_id = info.channel_id
        /\ is_channel_healthy(info.channel_id)

C16_StickyWins ==
    [][IsSelect(last_select') =>
          LET u == last_select'.user_id
              m == last_select'.model
          IN  /\ ValidRoute(u, m) =>
                    last_select'.channel_id = cache_routing[<<u, m>>].channel_id
              /\ ~cache_routing[<<u, m>>].present =>
                    /\ last_select'.sticky = None
                    /\ last_select'.candidates # {} =>
                          last_select'.channel_id \in
                             StrategyChoices(ChannelsForModel(m), m, last_select'.strategy)
              /\ \A k \in DOMAIN cache_routing :
                    k # <<u, m>> => cache_routing'[k] = cache_routing[k]]_vars

\* C16 witness: the caller's valid entry points to the channel of lower
\* weight and a weighted-random Select returned it, although the other
\* channel is healthy too.
C16_Witness ==
    /\ IsSelect(last_select)
    /\ last_select.strategy = "weighted"
    /\ ValidRoute(last_select.user_id, last_select.model)
    /\ last_select.channel_id = cache_routing[<<last_select.user_id, last_select.model>>].channel_id
    /\ \E d \in last_select.healthy :
          channels[d].weight > channels[last_select.channel_id].weight

\* C17: a sticky route is valid iff now - last_used_at <= TTL.  A Select
\* within the TTL reads the channel that was set; an entry older than the
\* TTL is absent for every operation: Select does not route through it, and
\* an upsert for the same caller, model and channel starts consecutive_hits
\* again at 1.
Upserts(call) ==
    /\ IsRecord(call)
    /\ call.success
    /\ enable_cache_tracking
    /\ (call.has_cache \/ call.latency_ms < CacheLatencyMs)

C17_ExpiredIsAbsent ==
    [][/\ IsSelect(last_select') =>
             LET info == cache_routing[<<last_select'.user_id, last_select'.model>>]
             IN  /\ (info.present /\ now - info.last_used_at > cache_routing_ttl_minutes) =>
                       last_select'.sticky = None
                 /\ ValidRoute(last_select'.user_id, last_select'.model) =>
                       last_select'.sticky = info.channel_id
       /\ Upserts(last_call') =>
             LET info == cache_routing[<<last_call'.user_id, last_call'.model>>]
             IN  (/\ info.present
                  /\ now - info.last_used_at > cache_routing_ttl_minutes
                  /\ info.channel_id = last_call'.channel_id) =>
                    cache_routing'[<<last_call'.user_id, last_call'.model>>].consecutive_hits = 1]_vars

\* The sticky table a Record leaves behind when it upserts the entry of its
\* (caller, model): the recorded channel, last_used_at = now, and
\* consecutive_hits one more than before if the entry pointed to the same
\* channel, 1 otherwise; every other entry as it was.
UpsertDone(call) ==
    LET key == <<call.user_id, call.model>>
        old == cache_routing[key]
    IN  /\ cache_routing'[key].present
        /\ cache_routing'[key].channel_id = call.channel_id
        /\ cache_routing'[key].last_used_at = now
        /\ cache_routing'[key].consecutive_hits =
              IF old.present /\ old.channel_id = call.channel_id
              THEN old.consecutive_hits + 1
              ELSE 1
        /\ \A k \in DOMAIN cache_routing : k # key => cache_routing'[k] = cache_routing[k]

C19_FailureDropsRoute ==
    [][(IsRecord(last_call') /\ ~last_call'.success) =>
          LET key == <<last_call'.user_id, last_call'.model>>
              points == cache_routing[key].present
                        /\ cache_routing[key].channel_id = last_call'.channel_id
          IN  /\ ~(/\ cache_routing'[key].present
                   /\ cache_routing'[key].channel_id = last_call'.channel_id)
              /\ ~points => cache_routing'[key] = cache_routing[key]
              /\ \A k \in DOMAIN cache_routing :
                    k # key => cache_routing'[k] = cache_routing[k]]_vars

\* ------------------------------------------ properties of the stream frames
FrameCount(f, kind) == Cardinality({i \in 1..Len(f) : f[i] = kind})

\* C20: every streaming response is a sequence of data frames ended by
\* exactly one [DONE] frame with nothing after it; when an error occurred
\* before the first chunk, mid-stream or in the accounting steps after the
\* upstream end-of-stream, the client sees exactly one error chunk, followed
\* by exactly one [DONE].
C20_StreamFraming ==
    \A r \in Requests :
       LET f == rq[r].frames
       IN  /\ \A i \in 1..Len(f) : f[i] = "done" => i = Len(f)
           /\ (rq[r].stream /\ rq[r].pc = "done" /\ ~rq[r].disconnected) =>
                 /\ Len(f) >= 1
                 /\ f[Len(f)] = "done"
                 /\ FrameCount(f, "done") = 1
                 /\ FrameCount(f, "error") <= 1
                 /\ FrameCount(f, "error") = 1 =>
                       (Len(f) >= 2 /\ f[Len(f) - 1] = "error")

\* C21: when the client disconnects after the first streamed chunk, the
\* upstream stream is cancelled, an outcome with status = error and the
\* tokens_out accumulated so far is appended, and budget_used is not
\* incremented for the request.
C21_DisconnectOutcome ==
    \A r \in Requests :
       (Done(r) /\ rq[r].disconnected) =>
          /\ rq[r].upstream = "cancelled"
          /\ ~rq[r].charged
          /\ Len(LogsOf(r)) = 1
          /\ LogsOf(r)[1].status = "error"
          /\ LogsOf(r)[1].tokens_output = rq[r].tout

\* ------------------------------------------ properties of weighted random
IsDraw(call) == call.op = "weighted_random"

\* The first position of the pool whose cumulative weight is >= r.
FirstReaching(pool, r) ==
    CHOOSE i \in 1..Len(pool) :
       /\ SumWeights(pool, i) >= r
       /\ \A j \in 1..(i - 1) : SumWeights(pool, j) < r

\* C22: WEIGHTED_RANDOM with a draw r in [0, sum of weights) returns the
\* first element, in pool order, whose cumulative weight is >= r; when the
\* sum of the weights is 0 the choice falls back to RANDOM: every element
\* of the pool can be returned.
C22_WeightedRandom ==
    /\ (IsDraw(last_call) /\ last_call.draw < WRTotal) =>
          last_call.channel_id = WRPool[FirstReaching(WRPool, last_call.draw)]
    /\ WRTotal = 0 =>
          strategy_weighted_random(ChannelsForModel(WRModel))
             = strategy_random(ChannelsForModel(WRModel))

\* C28: WEIGHTED_RANDOM never returns a channel of weight 0 when the pool
\* has a channel of positive weight, wherever the channel of weight 0
\* stands in the pool and whatever the draw in the closed range [0, total].
C28_NoZeroWeight ==
    (IsDraw(last_call) /\ WRTotal > 0) =>
        channels[last_call.channel_id].weight > 0

\* ------------------------------------------------ properties of the metrics
\* The metrics Select reads for a channel: the cache entry if fresh, else a
\* new analysis.
MetricsRead(c) == get_channel_performance(performance_metrics, c, PerfModel)

\* C23: BEST_PERFORMANCE strictly prefers the better channel: in a pool of
\* two healthy channels where A has success_rate 1.0 and p95 0 ms and B has
\* success_rate 0.5, both with total_requests > 0, Select with strategy
\* BEST_PERFORMANCE returns A for every random draw.
C23_StrictPreference ==
    [][\A a, b \in ChannelIds :
          (/\ IsSelect(last_select')
           /\ last_select'.strategy = "performance"
           /\ last_select'.sticky = None
           /\ last_select'.healthy = {a, b}
           /\ a # b
           /\ MetricsRead(a).total_requests > 0
           /\ MetricsRead(a).successes = MetricsRead(a).total_requests
           /\ MetricsRead(a).p95_latency_ms = 0
           /\ MetricsRead(b).total_requests > 0
           /\ 2 * MetricsRead(b).successes = MetricsRead(b).total_requests) =>
              last_select'.channel_id = a]_vars

\* C24: analyze_channel_performance over a window with no outcome of
\* (channel, model) returns success_rate 1.0, total_requests 0 and average,
\* p50, p95 and p99 latency 0; over a non-empty window success_rate is
\* (total - errors) / total, errors being the outcomes with status = error,
\* and p50 <= p95 <= p99 <= the largest latency of a successful outcome.
WindowRows(channel_id, model, window_minutes) ==
    {i \in 1..Len(request_logs) :
        /\ request_logs[i].channel_id = channel_id
        /\ request_logs[i].model = model
        /\ request_logs[i].created_at >= now - window_minutes}

C24_WindowMetrics ==
    last_call.op = "analyze" =>
       LET m == last_call.metrics
           rows == WindowRows(last_call.channel_id, last_call.model, last_call.window_minutes)
           total == Cardinality(rows)
           errors == Cardinality({i \in rows : request_logs[i].status = "error"})
           ok == {i \in rows : request_logs[i].status = "success"}
       IN  /\ m.total_requests = total
           /\ total = 0 =>
                 /\ m.success_rate.n = m.success_rate.d
                 /\ m.latency_sum = 0
                 /\ m.p50_latency_ms = 0 /\ m.p95_latency_ms = 0 /\ m.p99_latency_ms = 0
           /\ total > 0 =>
                 /\ m.success_rate.n * total = (total - errors) * m.success_rate.d
                 /\ m.p50_latency_ms <= m.p95_latency_ms
                 /\ m.p95_latency_ms <= m.p99_latency_ms
                 /\ \A x \in {request_logs[i].latency_ms : i \in ok} :
                       (\A y \in {request_logs[i].latency_ms : i \in ok} : y <= x) =>
                          m.p99_latency_ms <= x
                 /\ ok = {} => m.p99_latency_ms = 0

\* C24 witness: an analysis over a window that holds a fast success, a slow
\* success and an error of the channel: success_rate 2/3, p50 = p95 = p99 =
\* the slow latency.
C24_Witness ==
    /\ last_call.op = "analyze"
    /\ last_call.metrics.total_requests = 3
    /\ last_call.metrics.error_count = 1
    /\ last_call.metrics.success_rate = [n |-> 2, d |-> 3]
    /\ last_call.metrics.latency_sum = 100
    /\ last_call.metrics.p50_latency_ms = 100
    /\ last_call.metrics.p99_latency_ms = 100

\* C30: every metrics entry that the strategies LOWEST_COST and
\* BEST_PERFORMANCE read from the in-process cache was computed over
\* metrics_window_minutes and is younger than five minutes, whatever admin
\* performance queries with their own window_minutes ran before.
C30_CachedWindow ==
    [][(/\ IsSelect(last_select')
        /\ last_select'.strategy \in {"lowest_cost", "performance"}
        /\ last_select'.sticky = None) =>
          \A c \in last_select'.healthy :
             LET cached == performance_metrics[<<c, last_select'.model>>]
             IN  (cached.present /\ MetricsRead(c) = cached) =>
                    /\ cached.window_minutes = metrics_window_minutes
                    /\ now - cached.calculated_at < 5]_vars

\* ------------------------------- properties of responses and key masks
\* C25: for a unary request served by an Anthropic channel the usage sent
\* to the client has prompt_tokens = upstream input_tokens,
\* completion_tokens = upstream output_tokens and total_tokens =
\* prompt_tokens + completion_tokens (7 / 3 gives 7 / 3 / 10), and the
\* finish_reason end_turn is passed through.
C25_AnthropicUsage ==
    last_call.op = "unary_anthropic" =>
       /\ last_call.usage.prompt_tokens = last_call.upstream_usage.prompt_tokens
       /\ last_call.usage.completion_tokens = last_call.upstream_usage.completion_tokens
       /\ last_call.usage.total_tokens =
             last_call.usage.prompt_tokens + last_call.usage.completion_tokens
       /\ last_call.model = "end_turn" => last_call.finish_reason = "end_turn"

HasStarRun(t, k) ==
    \E i \in 1..(Len(t) - k + 1) : \A j \in 0..(k - 1) : t[i + j] = "*"
LastFour(t) == SubSeq(t, Len(t) - 3, Len(t))

\* C26: for every string s longer than 12 characters mask_api_key(s) has a
\* run of at least four '*' and ends with the last 4 characters of s; the
\* mask presented for an API key is sk-llmweaver-, stars, and the last 4
\* characters.
C26_MaskForm ==
    /\ (last_call.op = "mask_api_key" /\ Len(last_call.text) > 12) =>
          /\ HasStarRun(last_call.masked, 4)
          /\ Len(last_call.masked) >= 4
          /\ LastFour(last_call.masked) = LastFour(last_call.text)
    /\ last_call.op = "api_key_to_response" =>
          \E n \in 1..Len(last_call.masked) :
             last_call.masked = KeyPrefix \o Stars(n) \o LastFour(last_call.text)

\* ------------------------------------------ properties of administration
\* C27: update_channel with a models list L replaces: after the update the
\* rows of that channel are exactly L, so Select enumerates a channel at
\* most once for a model.
C27_ReplaceSemantics ==
    [][/\ (last_call'.op = "update_channel" /\ last_call'.set_models) =>
             LET rows == SelectSeq(model_mappings',
                             LAMBDA row : row.channel_id = last_call'.channel_id)
             IN  /\ Len(rows) = Len(last_call'.models)
                 /\ {rows[i].model_id : i \in 1..Len(rows)} = SeqRange(last_call'.models)
       /\ IsSelect(last_select') =>
             LET pool == ChannelsForModel(last_select'.model)
             IN  \A i, j \in 1..Len(pool) : pool[i] = pool[j] => i = j]_vars

\* C29: a soft-deleted channel stays out of Select: Select returns only
\* channels whose status is active, and no operation other than an
\* update_channel that sets status to active makes a channel active that
\* is not (test_channel, health checks, probes and Record leave it).
C29_SoftDeleteStays ==
    [][\A c \in ChannelIds :
          /\ (IsSelect(last_select') /\ last_select'.channel_id = c) =>
                channels[c].status = "active"
          /\ (channels[c].status # "active" /\ channels'[c].status = "active") =>
                (last_call'.op = "update_channel" /\ last_call'.status = "active")]_vars

====
